---- MODULE Spec2Model ----
(***************************************************************************)
(* Model of aiCalamba's HTTP handlers (src/src/main.rs): POST /text,       *)
(* POST /image and GET /image/last, the two outbound calls they make       *)
(* (screenshot provider, LLM chat completion) and the process-wide         *)
(* last-image cache behind a tokio RwLock.                                 *)
(*                                                                         *)
(* Each request occupies one slot of Reqs; a slot is freed when the        *)
(* response has been sent (Reset), so any number of requests is served,    *)
(* NumReqs of them concurrently.  One action is one stretch of handler     *)
(* code between two suspension points (.await) or two accesses to the      *)
(* shared cache.                                                           *)
(*                                                                         *)
(* Strings are sequences of one-character strings, byte vectors are        *)
(* sequences of numbers, an LLM answer is a sequence of lines.             *)
(***************************************************************************)
EXTENDS Integers, Sequences, FiniteSets, TLC

\* Number of requests in flight at the same time.
NumReqs == 2

Reqs == 1..NumReqs

(***************************************************************************)
(* Inputs of the environment.                                              *)
(***************************************************************************)

\* Characters of the submitted text and their classes.
Alpha == {"a"}
Digit == {"1"}
Whitespace == {" "}

\* The `text` form fields clients submit.
Texts ==
  { <<"a", ":", "/", "/", "a">>,
    <<" ", "a", ":", "a", " ">>,
    <<" ", "a", " ", "a", " ">>,
    <<"a", ":", "/", "/", "a", ":", "a">> }

\* Byte vectors the screenshot provider answers with: two JPEGs (they start
\* with the start-of-image marker 0xD8) and an HTML error page.
Blobs == { <<216, 1, 1>>, <<216, 2, 2>>, <<60, 3, 3>> }

\* Byte vectors clients upload as the file part of POST /image.
Uploads == { <<216, 4, 4>>, <<37, 5, 5>> }

\* Message contents the LLM answers with.
Contents ==
  { <<"BEGIN:VEVENT", "SUMMARY:x", "END:VEVENT">>,
    <<"BEGIN:VEVENT", "SUMMARY:x">> }

\* What multipart.next_field().await yields for a POST /image body:
\* Err(e), Ok(None) or Ok(Some(field)).
NextFieldOutcomes == {"err", "none", "field"}

(***************************************************************************)
(* Pure functions.                                                         *)
(***************************************************************************)

RECURSIVE TrimStart(_)
TrimStart(s) ==
  IF s # <<>> /\ Head(s) \in Whitespace THEN TrimStart(Tail(s)) ELSE s

RECURSIVE TrimEnd(_)
TrimEnd(s) ==
  IF s # <<>> /\ s[Len(s)] \in Whitespace
    THEN TrimEnd(SubSeq(s, 1, Len(s) - 1))
    ELSE s

\* str::trim
Trim(s) == TrimEnd(TrimStart(s))

\* Index of the first element of s that is in cs, Len(s) + 1 when there is none.
FirstOf(s, cs) ==
  LET hits == {i \in 1..Len(s) : s[i] \in cs}
  IN  IF hits = {} THEN Len(s) + 1
      ELSE CHOOSE i \in hits : \A j \in hits : i <= j

\* Index of the colon that ends the scheme, 0 when s has no scheme: a
\* scheme is a letter followed by letters, digits, "+", "-" or ".".
SchemeEnd(s) ==
  LET c == FirstOf(s, {":"})
  IN  IF /\ s # <<>>
         /\ s[1] \in Alpha
         /\ c <= Len(s)
         /\ \A j \in 2..(c - 1) : s[j] \in Alpha \cup Digit \cup {"+", "-", "."}
        THEN c
        ELSE 0

RECURSIVE PortValue(_)
PortValue(ds) ==
  IF ds = <<>> THEN 0
  ELSE 10 * PortValue(SubSeq(ds, 1, Len(ds) - 1)) + (IF ds[Len(ds)] = "1" THEN 1 ELSE 0)

\* The port after "host:": digits up to the path, at most 65535.
PortOk(p) ==
  LET ds == SubSeq(p, 1, FirstOf(p, {"/"}) - 1)
  IN  /\ \A i \in 1..Len(ds) : ds[i] \in Digit
      /\ PortValue(ds) <= 65535

\* The authority after "scheme://" of a non-special scheme: an opaque host
\* without forbidden code points, not empty when a port follows.
AuthorityOk(a) ==
  LET he == FirstOf(a, {":", "/"})
      host == SubSeq(a, 1, he - 1)
      rest == SubSeq(a, he, Len(a))
      hasPort == rest # <<>> /\ rest[1] = ":"
  IN  /\ \A i \in 1..Len(host) : host[i] \notin Whitespace
      /\ ~(host = <<>> /\ hasPort)
      /\ hasPort => PortOk(Tail(rest))

\* Url::parse(s).is_ok() for the characters of this model (no scheme that
\* can be spelled with them is a special one): leading and trailing spaces
\* are stripped, a scheme is required, and an authority, when there is one,
\* has to be well formed; any opaque path or path is accepted.
UrlParseOk(s) ==
  LET t == Trim(s)
      e == SchemeEnd(t)
      rest == SubSeq(t, e + 1, Len(t))
  IN  /\ e > 0
      /\ (Len(rest) >= 2 /\ rest[1] = "/" /\ rest[2] = "/")
           => AuthorityOk(SubSeq(rest, 3, Len(rest)))

\* jpeg_decoder::Decoder::decode().is_ok(): the bytes open with the
\* start-of-image marker.
JpegDecodeOk(bytes) == bytes # <<>> /\ bytes[1] = 216

\* Nesting depth after reading the lines, -1 once they are malformed.
RECURSIVE Nesting(_, _)
Nesting(ls, d) ==
  IF ls = <<>> THEN d
  ELSE IF Head(ls) = "BEGIN:VEVENT" THEN Nesting(Tail(ls), d + 1)
  ELSE IF d = 0 THEN -1
  ELSE IF Head(ls) = "END:VEVENT" THEN Nesting(Tail(ls), d - 1)
  ELSE Nesting(Tail(ls), d)

\* icalendar::parser::read_calendar(content).is_ok()
ReadCalendarOk(content) == Nesting(content, 0) = 0

(***************************************************************************)
(* Values.                                                                 *)
(***************************************************************************)

\* Option<Vec<u8>>
None == [some |-> FALSE, bytes |-> <<>>]
Some(b) == [some |-> TRUE, bytes |-> b]

\* LlmInput, and the absence of one.
NoInput == [tag |-> "none", bytes |-> <<>>, str |-> <<>>]
LlmImage(b) == [tag |-> "image", bytes |-> b, str |-> <<>>]
LlmText(t) == [tag |-> "text", bytes |-> <<>>, str |-> t]

\* HTTP responses; status 0 stands for a connection closed without one.
NoResponse == [status |-> 0, text |-> <<>>, bytes |-> <<>>]
TextResponse(st, lines) == [status |-> st, text |-> lines, bytes |-> <<>>]
ImageResponse(b) == [status |-> 200, text |-> <<>>, bytes |-> b]

\* Display texts of the errors the handlers see.
ErrEnv == "environment variable not found"
ErrTransport == "error sending request"
ErrJpeg == "invalid JPEG format"
ErrNoContent == "No LLM response"
ErrMultipart == "Error parsing multipart/form-data request"
ErrPanic == "index out of bounds"

(***************************************************************************)
(* State.                                                                  *)
(***************************************************************************)
VARIABLES
  env,         \* the environment variables that are set
  last_image,  \* AppState.last_image, the value behind the RwLock
  writer,      \* the request holding the write guard, 0 when none does
  readers,     \* the requests holding a read guard
  written,     \* history: every byte vector stored into last_image
  lastWriter,  \* history: the request that stored last_image, 0 when it left
  everAcquired,\* history: some fetch_screenshot has returned Ok
  kind,        \* per request: "none", "text", "image", "last"
  pc,          \* per request: position in its handler
  text,        \* per request: payload.text as submitted
  acq,         \* per request: outcome of fetch_screenshot
  shot,        \* per request: img of process_url
  llmIn,       \* per request: the LlmInput fetch_llm_hallucinations was called with
  llmOut,      \* per request: what the chat completion call returned
  err,         \* per request: the error the handler ended with, "" when none
  buf,         \* per request: bytes of the cached image cloned so far
  resp         \* per request: the response sent

vars == <<env, last_image, writer, readers, written, lastWriter, everAcquired,
          kind, pc, text, acq, shot, llmIn, llmOut, err, buf, resp>>

shared == <<last_image, writer, readers, written, lastWriter>>

(***************************************************************************)
(* Decisions of the code, one operator each.                               *)
(***************************************************************************)

\* Result<T, WhateverError>
Ok(v) == [ok |-> TRUE, val |-> v, err |-> ""]
Err(e) == [ok |-> FALSE, val |-> <<>>, err |-> e]

\* internal_error: the error is logged, the response is fixed.
internal_error(e) == TextResponse(500, <<"Internal server error">>)

\* The three 400 arms of handle_image.
bad_request == TextResponse(400, <<"Failed to read image file">>)

\* Variant of handle_text_input: the text is used as submitted.
handle_text_input_untrimmed(t) == t

\* handle_text: the text that is classified and, when it is no URL, extracted from.
handle_text_input(t) == Trim(t)

\* Variant of fetch_screenshot_result: the bytes are returned unchecked.
fetch_screenshot_result_unchecked(bytes) == Ok(bytes)

\* fetch_screenshot, once the provider has answered with `bytes`: the
\* bytes are returned when they decode as a JPEG.
fetch_screenshot_result(bytes) ==
  IF JpegDecodeOk(bytes) THEN Ok(bytes) ELSE Err(ErrJpeg)

\* Variant of process_url_after_fetch: the error is not propagated.
process_url_after_fetch_ignoring(res) == "wlock"

\* process_url: `fetch_screenshot(url).await?` leaves the function on Err
\* and goes on to the cache write on Ok.
process_url_after_fetch(res) == IF res.ok THEN "wlock" ELSE "done"

\* Variant of CanAcquireWrite: readers do not keep a writer out.
CanAcquireWriteDespiteReaders == writer = 0

\* RwLock::write is granted when nobody holds a guard.
CanAcquireWrite == writer = 0 /\ readers = {}

\* RwLock::read is granted when no writer holds the guard.
CanAcquireRead == writer = 0

\* Variant of guard_after_store: the guard is bound to a name and lives on.
guard_after_store_kept(r) == r

\* process_url: the write guard is a temporary of the assignment statement,
\* dropped at its end; nobody holds it afterwards.
guard_after_store(r) == 0

\* Variant of llm_content_result: content that fails the iCal check is an error.
llm_content_result_blocking(content) ==
  IF ReadCalendarOk(content) THEN Ok(content) ELSE Err("Failed to parse iCal content")

\* fetch_llm_hallucinations, once the first choice has content: the iCal
\* check is logged and the content returned either way.
llm_content_result(content) == Ok(content)

\* Variant of serve_last_image_response: an empty cache is served as an empty image.
serve_last_image_response_empty(cache) == ImageResponse(cache.bytes)

\* serve_last_image: the response for the value read under the read guard.
serve_last_image_response(cache) ==
  IF cache.some
    THEN ImageResponse(cache.bytes)
    ELSE TextResponse(404, <<"No image available">>)

(***************************************************************************)
(* Initial state: main builds AppState with an empty cache.                *)
(***************************************************************************)
Init ==
  /\ env \in SUBSET {"OPENAI_KEY", "APIFLASH_KEY"}
  /\ last_image = None
  /\ writer = 0
  /\ readers = {}
  /\ written = {}
  /\ lastWriter = 0
  /\ everAcquired = FALSE
  /\ kind = [r \in Reqs |-> "none"]
  /\ pc = [r \in Reqs |-> "idle"]
  /\ text = [r \in Reqs |-> <<>>]
  /\ acq = [r \in Reqs |-> "none"]
  /\ shot = [r \in Reqs |-> <<>>]
  /\ llmIn = [r \in Reqs |-> NoInput]
  /\ llmOut = [r \in Reqs |-> [kind |-> "none", content |-> <<>>]]
  /\ err = [r \in Reqs |-> ""]
  /\ buf = [r \in Reqs |-> <<>>]
  /\ resp = [r \in Reqs |-> NoResponse]

(***************************************************************************)
(* Steps shared by the handlers.                                           *)
(***************************************************************************)

\* The handler of r ends: with error e ("" for none) and response rsp.
Respond(r, e, rsp) ==
  /\ pc' = [pc EXCEPT ![r] = "done"]
  /\ err' = [err EXCEPT ![r] = e]
  /\ resp' = [resp EXCEPT ![r] = rsp]

\* fetch_llm_hallucinations(input) up to the chat completion request: the
\* credential is read from the environment, then the request is sent.
CallLlm(r, input) ==
  /\ llmIn' = [llmIn EXCEPT ![r] = input]
  /\ IF "OPENAI_KEY" \in env
       THEN /\ pc' = [pc EXCEPT ![r] = "llm"]
            /\ UNCHANGED <<err, resp>>
       ELSE Respond(r, ErrEnv, internal_error(ErrEnv))

(***************************************************************************)
(* POST /text                                                              *)
(***************************************************************************)

\* handle_text, up to the first await: the text is trimmed and classified;
\* a URL goes to process_url and fetch_screenshot (which reads its
\* credential and sends the provider request), other text to process_text.
HandleText(r, t) ==
  /\ pc[r] = "idle"
  /\ kind' = [kind EXCEPT ![r] = "text"]
  /\ text' = [text EXCEPT ![r] = t]
  /\ LET tt == handle_text_input(t)
     IN  IF UrlParseOk(tt)
           THEN /\ IF "APIFLASH_KEY" \in env
                     THEN /\ pc' = [pc EXCEPT ![r] = "screenshot"]
                          /\ UNCHANGED <<acq, err, resp>>
                     ELSE /\ acq' = [acq EXCEPT ![r] = "failed"]
                          /\ Respond(r, ErrEnv, internal_error(ErrEnv))
                /\ UNCHANGED llmIn
           ELSE /\ CallLlm(r, LlmText(tt))
                /\ UNCHANGED acq
  /\ UNCHANGED <<env, shared, everAcquired, shot, llmOut, buf>>

\* fetch_screenshot: client.execute(request).await? is an Err.
ScreenshotFails(r) ==
  /\ pc[r] = "screenshot"
  /\ acq' = [acq EXCEPT ![r] = "failed"]
  /\ Respond(r, ErrTransport, internal_error(ErrTransport))
  /\ UNCHANGED <<env, shared, everAcquired, kind, text, shot, llmIn,
                 llmOut, buf>>

\* fetch_screenshot: the provider has answered; response.bytes() is awaited.
ScreenshotResponds(r) ==
  /\ pc[r] = "screenshot"
  /\ pc' = [pc EXCEPT ![r] = "body"]
  /\ UNCHANGED <<env, shared, everAcquired, kind, text, acq, shot, llmIn,
                 llmOut, err, buf, resp>>

\* fetch_screenshot: response.bytes().await? is an Err.
ScreenshotBodyFails(r) ==
  /\ pc[r] = "body"
  /\ acq' = [acq EXCEPT ![r] = "failed"]
  /\ Respond(r, ErrTransport, internal_error(ErrTransport))
  /\ UNCHANGED <<env, shared, everAcquired, kind, text, shot, llmIn,
                 llmOut, buf>>

\* fetch_screenshot: the body of the answer is b; process_url goes on to
\* the cache write, or ends the request with the error.
ScreenshotReturns(r, b) ==
  /\ pc[r] = "body"
  /\ LET res == fetch_screenshot_result(b)
     IN  /\ acq' = [acq EXCEPT ![r] = IF res.ok THEN "ok" ELSE "failed"]
         /\ everAcquired' = (everAcquired \/ res.ok)
         /\ IF process_url_after_fetch(res) = "done"
              THEN /\ Respond(r, res.err, internal_error(res.err))
                   /\ UNCHANGED shot
              ELSE /\ shot' = [shot EXCEPT ![r] = res.val]
                   /\ pc' = [pc EXCEPT ![r] = "wlock"]
                   /\ UNCHANGED <<err, resp>>
  /\ UNCHANGED <<env, shared, kind, text, llmIn, llmOut, buf>>

\* process_url: state.last_image.write().await is granted.
AcquireWrite(r) ==
  /\ pc[r] = "wlock"
  /\ CanAcquireWrite
  /\ writer' = r
  /\ pc' = [pc EXCEPT ![r] = "store"]
  /\ UNCHANGED <<env, last_image, readers, written, lastWriter, everAcquired,
                 kind, text, acq, shot, llmIn, llmOut, err, buf, resp>>

\* process_url: the clone of img is stored and the guard dropped.
Store(r) ==
  /\ pc[r] = "store"
  /\ writer = r
  /\ last_image' = Some(shot[r])
  /\ written' = written \cup {shot[r]}
  /\ lastWriter' = r
  /\ writer' = guard_after_store(r)
  /\ pc' = [pc EXCEPT ![r] = "stored"]
  /\ UNCHANGED <<env, readers, everAcquired, kind, text, acq, shot,
                 llmIn, llmOut, err, buf, resp>>

\* process_url: fetch_llm_hallucinations(LlmInput::Image(&img)) is called.
Extract(r) ==
  /\ pc[r] = "stored"
  /\ CallLlm(r, LlmImage(shot[r]))
  /\ UNCHANGED <<env, shared, everAcquired, kind, text, acq, shot,
                 llmOut, buf>>

(***************************************************************************)
(* fetch_llm_hallucinations, from the answer of the chat completion call.  *)
(***************************************************************************)

\* client.chat_completion(req).await? is an Err.
LlmFails(r) ==
  /\ pc[r] = "llm"
  /\ llmOut' = [llmOut EXCEPT ![r] = [kind |-> "error", content |-> <<>>]]
  /\ Respond(r, ErrTransport, internal_error(ErrTransport))
  /\ UNCHANGED <<env, shared, everAcquired, kind, text, acq, shot,
                 llmIn, buf>>

\* The answer has no choices: result.choices[0] panics, the task of the
\* connection unwinds and the connection closes without a response.
LlmNoChoices(r) ==
  /\ pc[r] = "llm"
  /\ llmOut' = [llmOut EXCEPT ![r] = [kind |-> "nochoices", content |-> <<>>]]
  /\ Respond(r, ErrPanic, NoResponse)
  /\ UNCHANGED <<env, shared, everAcquired, kind, text, acq, shot,
                 llmIn, buf>>

\* The first choice has no content: ok_or("No LLM response")?.
LlmNoContent(r) ==
  /\ pc[r] = "llm"
  /\ llmOut' = [llmOut EXCEPT ![r] = [kind |-> "nocontent", content |-> <<>>]]
  /\ Respond(r, ErrNoContent, internal_error(ErrNoContent))
  /\ UNCHANGED <<env, shared, everAcquired, kind, text, acq, shot,
                 llmIn, buf>>

\* The first choice has content c.
LlmContent(r, c) ==
  /\ pc[r] = "llm"
  /\ llmOut' = [llmOut EXCEPT ![r] = [kind |-> "content", content |-> c]]
  /\ LET res == llm_content_result(c)
     IN  IF res.ok
           THEN Respond(r, "", TextResponse(200, res.val))
           ELSE Respond(r, res.err, internal_error(res.err))
  /\ UNCHANGED <<env, shared, everAcquired, kind, text, acq, shot,
                 llmIn, buf>>

(***************************************************************************)
(* POST /image                                                             *)
(***************************************************************************)

\* handle_image: multipart.next_field() is awaited.
HandleImage(r) ==
  /\ pc[r] = "idle"
  /\ kind' = [kind EXCEPT ![r] = "image"]
  /\ pc' = [pc EXCEPT ![r] = "field"]
  /\ UNCHANGED <<env, shared, everAcquired, text, acq, shot, llmIn, llmOut,
                 err, buf, resp>>

\* next_field() has completed: a malformed body and a body without a field
\* are 400; of a field, bytes() is awaited.
NextField(r, mo) ==
  /\ pc[r] = "field"
  /\ IF mo = "field"
       THEN /\ pc' = [pc EXCEPT ![r] = "bytes"]
            /\ UNCHANGED <<err, resp>>
       ELSE Respond(r, ErrMultipart, bad_request)
  /\ UNCHANGED <<env, shared, everAcquired, kind, text, acq, shot, llmIn,
                 llmOut, buf>>

\* field.bytes() is an Err: 400.
FieldBytesFails(r) ==
  /\ pc[r] = "bytes"
  /\ Respond(r, ErrMultipart, bad_request)
  /\ UNCHANGED <<env, shared, everAcquired, kind, text, acq, shot, llmIn,
                 llmOut, buf>>

\* field.bytes() is Ok(u): the bytes go to the LLM as they are.
FieldBytes(r, u) ==
  /\ pc[r] = "bytes"
  /\ CallLlm(r, LlmImage(u))
  /\ UNCHANGED <<env, shared, everAcquired, kind, text, acq, shot, llmOut, buf>>

(***************************************************************************)
(* GET /image/last                                                         *)
(***************************************************************************)

\* serve_last_image: state.last_image.read() is awaited.
ServeLastImage(r) ==
  /\ pc[r] = "idle"
  /\ kind' = [kind EXCEPT ![r] = "last"]
  /\ pc' = [pc EXCEPT ![r] = "rlock"]
  /\ UNCHANGED <<env, shared, everAcquired, text, acq, shot, llmIn,
                 llmOut, err, buf, resp>>

\* The read guard is granted.
AcquireRead(r) ==
  /\ pc[r] = "rlock"
  /\ CanAcquireRead
  /\ readers' = readers \cup {r}
  /\ pc' = [pc EXCEPT ![r] = "read"]
  /\ UNCHANGED <<env, last_image, writer, written, lastWriter, everAcquired,
                 kind, text, acq, shot, llmIn, llmOut, err, buf, resp>>

\* The cache is None: 404, and the guard is dropped.
ServeNone(r) ==
  /\ pc[r] = "read"
  /\ ~last_image.some
  /\ Respond(r, "", serve_last_image_response(last_image))
  /\ readers' = readers \ {r}
  /\ UNCHANGED <<env, last_image, writer, written, lastWriter, everAcquired,
                 kind, text, acq, shot, llmIn, llmOut, buf>>

\* The cache is Some(img): img.clone() has copied the first k bytes.
CloneFirst(r, k) ==
  /\ pc[r] = "read"
  /\ last_image.some
  /\ k \in 1..(Len(last_image.bytes) - 1)
  /\ buf' = [buf EXCEPT ![r] = SubSeq(last_image.bytes, 1, k)]
  /\ pc' = [pc EXCEPT ![r] = "clone"]
  /\ UNCHANGED <<env, shared, everAcquired, kind, text, acq, shot,
                 llmIn, llmOut, err, resp>>

\* img.clone() copies the remaining bytes; the clone is the response body
\* and the guard is dropped.
CloneRest(r) ==
  /\ pc[r] = "clone"
  /\ LET b == last_image.bytes
         copy == buf[r] \o SubSeq(b, Len(buf[r]) + 1, Len(b))
     IN  Respond(r, "", serve_last_image_response(Some(copy)))
  /\ buf' = [buf EXCEPT ![r] = <<>>]
  /\ readers' = readers \ {r}
  /\ UNCHANGED <<env, last_image, writer, written, lastWriter, everAcquired,
                 kind, text, acq, shot, llmIn, llmOut>>

(***************************************************************************)
(* The response has been sent; the slot serves the next request.           *)
(***************************************************************************)
Reset(r) ==
  /\ pc[r] = "done"
  /\ kind' = [kind EXCEPT ![r] = "none"]
  /\ pc' = [pc EXCEPT ![r] = "idle"]
  /\ text' = [text EXCEPT ![r] = <<>>]
  /\ acq' = [acq EXCEPT ![r] = "none"]
  /\ shot' = [shot EXCEPT ![r] = <<>>]
  /\ llmIn' = [llmIn EXCEPT ![r] = NoInput]
  /\ llmOut' = [llmOut EXCEPT ![r] = [kind |-> "none", content |-> <<>>]]
  /\ err' = [err EXCEPT ![r] = ""]
  /\ resp' = [resp EXCEPT ![r] = NoResponse]
  /\ lastWriter' = IF lastWriter = r THEN 0 ELSE lastWriter
  /\ UNCHANGED <<env, last_image, writer, readers, written, everAcquired,
                 buf>>

Next ==
  \E r \in Reqs :
    \/ \E t \in Texts : HandleText(r, t)
    \/ ScreenshotFails(r)
    \/ ScreenshotResponds(r)
    \/ ScreenshotBodyFails(r)
    \/ \E b \in Blobs : ScreenshotReturns(r, b)
    \/ AcquireWrite(r)
    \/ Store(r)
    \/ Extract(r)
    \/ LlmFails(r)
    \/ LlmNoChoices(r)
    \/ LlmNoContent(r)
    \/ \E c \in Contents : LlmContent(r, c)
    \/ HandleImage(r)
    \/ \E mo \in NextFieldOutcomes : NextField(r, mo)
    \/ FieldBytesFails(r)
    \/ \E u \in Uploads : FieldBytes(r, u)
    \/ ServeLastImage(r)
    \/ AcquireRead(r)
    \/ ServeNone(r)
    \/ \E k \in 1..2 : CloneFirst(r, k)
    \/ CloneRest(r)
    \/ Reset(r)

Spec == Init /\ [][Next]_vars

(***************************************************************************)
(* Properties.                                                             *)
(***************************************************************************)

\* r is a POST /text request whose trimmed text parses as a URL.
IsUrlRequest(r) == kind[r] = "text" /\ UrlParseOk(Trim(text[r]))

\* r is a POST /text request whose trimmed text does not parse as a URL.
IsRawTextRequest(r) == kind[r] = "text" /\ ~UrlParseOk(Trim(text[r]))

\* fetch_llm_hallucinations has been called in r.
ExtractionStarted(r) == llmIn[r].tag # "none"

\* r has ended with an error.
Failed(r) == pc[r] = "done" /\ err[r] # ""

\* C1: in a URL request the extraction call is started only after the
\* screenshot acquisition of that request has succeeded; when acquisition
\* fails, extraction is never started and the request ends with 500.
C1_AcquisitionPrecedesExtraction ==
  \A r \in Reqs :
    IsUrlRequest(r) =>
      /\ ExtractionStarted(r) => acq[r] = "ok"
      /\ acq[r] = "failed" =>
           /\ ~ExtractionStarted(r)
           /\ pc[r] = "done"
           /\ resp[r].status = 500

\* One URL request is in extraction after a successful acquisition while
\* another has ended with 500 on a failed acquisition.
C1_Witness ==
  \E r, q \in Reqs :
    /\ IsUrlRequest(r) /\ acq[r] = "ok" /\ pc[r] = "llm"
    /\ IsUrlRequest(q) /\ acq[q] = "failed" /\ resp[q].status = 500

\* C2: every failing POST /text or POST /image request ends with 400 when
\* the multipart body has no readable file part, and otherwise with 500 and
\* the body "Internal server error"; the error text is not in the body and
\* no failing request ends without a response.
C2_TwoErrorShapes ==
  \A r \in Reqs :
    Failed(r) =>
      /\ resp[r].status # 0
      /\ IF err[r] = ErrMultipart
           THEN kind[r] = "image" /\ resp[r].status = 400
           ELSE resp[r] = TextResponse(500, <<"Internal server error">>)
      /\ \A i \in 1..Len(resp[r].text) : resp[r].text[i] # err[r]

\* C3: when the LLM answer carries no message content (no choices, or a
\* first choice without content) the request fails with "No LLM response"
\* and is answered with 500.
C3_NoContentIs500 ==
  \A r \in Reqs :
    (pc[r] = "done" /\ llmOut[r].kind \in {"nochoices", "nocontent"}) =>
      /\ err[r] = ErrNoContent
      /\ resp[r].status = 500

\* C4: whenever the LLM call returns message content the request is
\* answered with 200 and exactly that content as the body, whether the
\* content passes the iCal check or not.
C4_ContentIsForwarded ==
  \A r \in Reqs :
    llmOut[r].kind = "content" =>
      /\ pc[r] = "done"
      /\ resp[r] = TextResponse(200, llmOut[r].content)

\* Content that fails the iCal check has been answered with 200.
C4_Witness ==
  \E r \in Reqs :
    /\ llmOut[r].kind = "content"
    /\ ~ReadCalendarOk(llmOut[r].content)
    /\ resp[r].status = 200
    /\ resp[r].text = llmOut[r].content

\* C5: a POST /text request whose trimmed text parses as a URL is on the
\* screenshot path and never extracts with text modality; one whose trimmed
\* text does not parse is on the direct-text path, extracts from the trimmed
\* text and never attempts an acquisition.
C5_ClassifierDecidesPath ==
  \A r \in Reqs :
    /\ IsUrlRequest(r) =>
         /\ pc[r] \in {"screenshot", "body", "wlock", "store", "stored", "llm", "done"}
         /\ llmIn[r].tag # "text"
         /\ pc[r] \notin {"screenshot", "body"} => acq[r] # "none"
         /\ ExtractionStarted(r) => llmIn[r] = LlmImage(shot[r])
    /\ IsRawTextRequest(r) =>
         /\ pc[r] \in {"llm", "done"}
         /\ acq[r] = "none"
         /\ shot[r] = <<>>
         /\ llmIn[r] = LlmText(Trim(text[r]))

\* A URL request extracts from its screenshot while a raw-text request,
\* submitted with surrounding spaces, extracts from its trimmed text.
C5_Witness ==
  \E r, q \in Reqs :
    /\ IsUrlRequest(r) /\ llmIn[r].tag = "image"
    /\ IsRawTextRequest(q) /\ llmIn[q].tag = "text"
    /\ Trim(text[q]) # text[q]

\* C6: in a URL request the screenshot is stored in the cache, and the
\* write guard released, before extraction starts; from then on the cache
\* holds that screenshot unless a later store replaced it, whatever the
\* outcome of the extraction; and no request holds a guard of the cache
\* while its extraction call is in flight.
C6_CacheWrittenBeforeExtraction ==
  /\ \A r \in Reqs :
       (IsUrlRequest(r) /\ ExtractionStarted(r)) =>
         /\ shot[r] \in written
         /\ writer # r
  /\ \A r \in Reqs :
       (IsUrlRequest(r) /\ acq[r] = "ok" /\ pc[r] \in {"stored", "llm", "done"}) =>
         /\ last_image.some
         /\ lastWriter = r => last_image = Some(shot[r])
  /\ \A r \in Reqs :
       pc[r] \in {"llm", "stored"} => (writer # r /\ r \notin readers)

\* A URL request has been answered 500 because its extraction failed, and
\* the cache holds its screenshot.
C6_Witness ==
  \E r \in Reqs :
    /\ IsUrlRequest(r) /\ pc[r] = "done"
    /\ llmOut[r].kind = "error"
    /\ resp[r].status = 500
    /\ lastWriter = r
    /\ last_image = Some(shot[r])

\* C7: a writer holds the guard of the cache alone, and every image served
\* by GET /image/last is one complete byte vector that some store wrote,
\* never a mixture of two.
C7_NoTornRead ==
  /\ writer # 0 => readers = {}
  /\ \A r \in Reqs :
       pc[r] = "clone" =>
         /\ r \in readers
         /\ buf[r] = SubSeq(last_image.bytes, 1, Len(buf[r]))
  /\ \A r \in Reqs :
       (kind[r] = "last" /\ pc[r] = "done" /\ resp[r].status = 200) =>
         resp[r].bytes \in written

\* A reader is half way through its clone while a writer with a different
\* screenshot waits for the guard.
C7_Witness ==
  \E r, q \in Reqs :
    /\ pc[r] = "clone"
    /\ pc[q] = "wlock"
    /\ shot[q] # last_image.bytes

\* The step in which GET /image/last request r is answered.
LastImageAnswered(r) == kind[r] = "last" /\ pc[r] # "done" /\ pc'[r] = "done"

\* C8 as stated: GET /image/last answers 404 exactly when no screenshot
\* acquisition has succeeded since process start and otherwise with the
\* stored screenshot; the cache starts empty and is never emptied again.
C8_NotFoundIffNoAcquisition ==
  /\ last_image = None
  /\ [][ /\ last_image.some => last_image'.some
         /\ \A r \in Reqs :
              LastImageAnswered(r) =>
                /\ resp'[r].status = 404 <=> ~everAcquired
                /\ resp'[r].status # 404 => resp'[r] = ImageResponse(last_image.bytes)
       ]_vars

\* C8 as amended: GET /image/last answers 404 exactly when the cache is
\* empty when the handler reads it, that is when no acquired screenshot has
\* been stored yet, and otherwise with the screenshot stored last; the cache
\* starts empty and is never emptied again.
C8_NotFoundIffNothingStored ==
  /\ last_image = None
  /\ [][ /\ last_image.some => last_image'.some
         /\ \A r \in Reqs :
              LastImageAnswered(r) =>
                /\ resp'[r].status = 404 <=> (~last_image.some /\ written = {})
                /\ resp'[r].status # 404 => resp'[r] = ImageResponse(last_image.bytes)
       ]_vars

\* GET /image/last has been answered 404 although an acquisition has
\* succeeded: its screenshot is not stored yet.
C8_Witness ==
  \E r, q \in Reqs :
    /\ kind[r] = "last" /\ pc[r] = "done" /\ resp[r].status = 404
    /\ acq[q] = "ok" /\ pc[q] = "wlock"
    /\ ~last_image.some

\* C9: provider bytes that do not decode as a JPEG are never stored in the
\* cache nor passed to extraction, and their request is answered with 500;
\* every value of the cache has passed the decode check, and only the
\* store of a URL request changes the cache.
C9_OnlyDecodedScreenshotsCached ==
  /\ last_image = None
  /\ [][ /\ last_image' # last_image =>
              \E r \in Reqs :
                /\ IsUrlRequest(r)
                /\ pc[r] = "store"
                /\ acq[r] = "ok"
                /\ JpegDecodeOk(shot[r])
                /\ last_image' = Some(shot[r])
         /\ \A r \in Reqs :
              /\ (kind'[r] = "text" /\ llmIn'[r].tag = "image") =>
                   JpegDecodeOk(llmIn'[r].bytes)
              /\ (pc[r] \in {"screenshot", "body"} /\ acq'[r] = "failed") =>
                   /\ pc'[r] = "done"
                   /\ resp'[r].status = 500
              /\ acq[r] = "failed" =>
                   /\ acq'[r] = "failed" \/ pc'[r] = "idle"
                   /\ llmIn'[r].tag = "none"
                   /\ pc'[r] \in {"done", "idle"}
       ]_vars

\* A URL request has been answered 500 on undecodable provider bytes while
\* the cache holds an earlier screenshot.
C9_Witness ==
  \E r \in Reqs :
    /\ IsUrlRequest(r)
    /\ err[r] = ErrJpeg
    /\ resp[r].status = 500
    /\ last_image.some

\* C10: the bytes of a POST /image file part reach the extraction call
\* only when they decode as an image.
C10_UndecodableUploadRejected ==
  \A r \in Reqs :
    (kind[r] = "image" /\ ExtractionStarted(r)) => JpegDecodeOk(llmIn[r].bytes)

====
